---------------------------- MODULE Spec2Model ----------------------------
(* Weather Data Downloader & Visualizer (app.py).                          *)
(*                                                                         *)
(* The script is re-executed from top to bottom after every user           *)
(* interaction.  One run is modelled as a sequence of steps, one per       *)
(* section of the script: resolve the columns, render the column           *)
(* selection, the "Download Data" handler, the export section and the      *)
(* plot section.  Widget values and st.session_state survive between runs, *)
(* everything else is local to a run.                                      *)
EXTENDS Integers, Sequences, FiniteSets, TLC

(***************************************************************************)
(* Bounds of the model.                                                    *)
(***************************************************************************)
\* Dates are day numbers; the date picker offers StartDate..MaxDate
\* (2019-01-01 .. end of last month).
MaxDate == 2
\* Series of the stand-alone normaliser check: lengths 1..MaxLen, values
\* -MaxVal..MaxVal.
MaxLen == 3
MaxVal == 2

StartDate == 1

(***************************************************************************)
(* Cells and tables.  A cell is [k, v]: k is the kind of the Python value  *)
(* ("num" a number, "text" a string, "date" a datetime.date as the driver  *)
(* returns it, "ts" a pandas Timestamp), v its value as an integer (for a  *)
(* text the string's rank in sort order).  A normalised value is the       *)
(* fraction [k |-> "frac", n, d] = n / d.                                  *)
(* A DataFrame is [cols, data]: the column names in order and the rows,    *)
(* each a sequence of cells aligned with cols.                             *)
(***************************************************************************)
Cell(kind, val) == [k |-> kind, v |-> val]
Frac(num, den) == [k |-> "frac", n |-> num, d |-> den]

NoDf == [cols |-> <<"<none>">>, data |-> <<>>]

Range(s) == {s[i] : i \in 1..Len(s)}
IndexOf(s, x) == CHOOSE i \in 1..Len(s) : s[i] = x
Column(df, name) == [i \in 1..Len(df.data) |-> df.data[i][IndexOf(df.cols, name)]]


(***************************************************************************)
(* Configuration fixed in the script.                                      *)
(***************************************************************************)
Frequencies == {"Daily", "Weekly"}
Countries == <<"EE", "LV", "LT", "FI">>
Formats == {"CSV", "Excel"}

table_name(freq) == IF freq = "Daily" THEN "weather_daily" ELSE "weather_weekly"
date_column(freq) == IF freq = "Daily" THEN "RECORD_DATE" ELSE "RECORD_WEEK"
hidden_columns(freq) ==
    IF freq = "Daily" THEN <<"DAILY_WEATHER_ID", "RECORD_DATE">>
                      ELSE <<"WEEKLY_WEATHER_ID", "RECORD_WEEK">>
default_vars == {"TEMP_AVG", "APP_TEMP_AVG", "RAIN_SUM", "SNOWFALL_SUM"}

(***************************************************************************)
(* The warehouse: the two tables the script reads.  Their schema and rows  *)
(* are not in the script; the script learns the schema from the probe      *)
(* query's cursor description.  Both tables hold a row per country with    *)
(* data and per day 0..MaxDate+1, so rows exist on both sides of every     *)
(* date range the picker can produce, stored newest first.                 *)
(***************************************************************************)
TableColumns(table) ==
    IF table = "weather_daily"
    THEN <<"DAILY_WEATHER_ID", "COUNTRY_CODE", "RECORD_DATE",
           "TEMP_AVG", "WEATHER_DESC">>
    ELSE <<"WEEKLY_WEATHER_ID", "COUNTRY_CODE", "RECORD_WEEK",
           "TEMP_AVG", "SNOWFALL_SUM">>

CountryCode(c) == IndexOf(Countries, c)
CountriesWithData == <<"EE", "LV">>
DbDates == 0..(MaxDate + 1)

CellOf(col, c, d) ==
    CASE col \in {"DAILY_WEATHER_ID", "WEEKLY_WEATHER_ID"}
                                -> Cell("num", 10 * d + CountryCode(c))
      [] col = "COUNTRY_CODE"   -> Cell("text", CountryCode(c))
      [] col \in {"RECORD_DATE", "RECORD_WEEK"} -> Cell("date", d)
      [] col = "TEMP_AVG"       -> Cell("num", IF c = "EE" THEN d - 2 ELSE 1)
      [] col = "SNOWFALL_SUM"   -> Cell("num", d * d)
      [] OTHER                  -> Cell("text", d % 2)

TableRows(table) ==
    LET nc == Len(CountriesWithData)
        n  == nc * Cardinality(DbDates)
    IN  [i \in 1..n |->
            [col \in Range(TableColumns(table)) |->
                CellOf(col, CountriesWithData[((i - 1) % nc) + 1],
                       (MaxDate + 1) - ((i - 1) \div nc))]]

(***************************************************************************)
(* The data query, lines 131-137:                                          *)
(*   SELECT <projection> FROM <table> WHERE COUNTRY_CODE = '<country>'     *)
(*   AND <date_column> BETWEEN '<lo>' AND '<hi>' ORDER BY <date_column>    *)
(***************************************************************************)
NoQuery == [table |-> "<none>", projection |-> <<>>, country |-> "<none>",
            date_col |-> "<none>", lo |-> 0, hi |-> 0]

BetweenExclusive(x, lo, hi) == lo < x /\ x < hi
Between(x, lo, hi) == lo <= x /\ x <= hi

Where(q, r) ==
    /\ r["COUNTRY_CODE"].v = CountryCode(q.country)
    /\ Between(r[q.date_col].v, q.lo, q.hi)

RECURSIVE InsertByDate(_, _, _)
InsertByDate(sorted, r, col) ==
    IF sorted = <<>> THEN <<r>>
    ELSE IF r[col].v < Head(sorted)[col].v THEN <<r>> \o sorted
    ELSE <<Head(sorted)>> \o InsertByDate(Tail(sorted), r, col)

RECURSIVE OrderBy(_, _)
OrderBy(rows, col) ==
    IF rows = <<>> THEN <<>>
    ELSE InsertByDate(OrderBy(Tail(rows), col), Head(rows), col)

\* The statement compiles when it selects something and every identifier
\* names a column of the table.
QueryCompiles(q) ==
    /\ q.projection # <<>>
    /\ Range(q.projection) \subseteq Range(TableColumns(q.table))
    /\ q.date_col \in Range(TableColumns(q.table))

RunQuery(q) ==
    LET hit == SelectSeq(TableRows(q.table), LAMBDA r : Where(q, r))
        rows == OrderBy(hit, q.date_col)
    IN  [cols |-> q.projection,
         data |-> [i \in 1..Len(rows) |->
                     [j \in 1..Len(q.projection) |-> rows[i][q.projection[j]]]]]

(***************************************************************************)
(* Min-max normalisation of one column, lines 213-218.  Series.max() and   *)
(* Series.min() order numbers by value and strings lexicographically;      *)
(* subtracting two strings raises TypeError.                               *)
(***************************************************************************)
SeriesMax(series) ==
    CHOOSE m \in {series[i].v : i \in 1..Len(series)} :
        \A i \in 1..Len(series) : series[i].v <= m
SeriesMin(series) ==
    CHOOSE m \in {series[i].v : i \in 1..Len(series)} :
        \A i \in 1..Len(series) : m <= series[i].v

NormalizeRaises(series) ==
    /\ SeriesMax(series) # SeriesMin(series)
    /\ \E i \in 1..Len(series) : series[i].k = "text"

NormalizeByMax(series) ==
    IF SeriesMax(series) # SeriesMin(series)
    THEN [i \in 1..Len(series) |->
            Frac(series[i].v - SeriesMin(series), SeriesMax(series))]
    ELSE series
Normalize(series) ==
    IF SeriesMax(series) # SeriesMin(series)
    THEN [i \in 1..Len(series) |->
            Frac(series[i].v - SeriesMin(series),
                 SeriesMax(series) - SeriesMin(series))]
    ELSE series

(***************************************************************************)
(* pd.to_datetime on the date column, lines 196-199: dates and timestamps  *)
(* become timestamps; a text that is no date raises.  The assignment       *)
(* df[date_column] = ... replaces the column of df in place.               *)
(***************************************************************************)
ToDatetimeRaises(series) == \E i \in 1..Len(series) : series[i].k = "text"
ToDatetime(series) == [i \in 1..Len(series) |-> Cell("ts", series[i].v)]

SetColumn(df, name, series) ==
    [df EXCEPT !.data =
        [i \in 1..Len(df.data) |->
            [df.data[i] EXCEPT ![IndexOf(df.cols, name)] = series[i]]]]

(***************************************************************************)
(* The plot loop, lines 210-220, from the i-th selected column on.  It     *)
(* returns the lines drawn, the columns of df it read, and whether the     *)
(* loop was left by an exception.                                          *)
(***************************************************************************)
RECURSIVE PlotLoopUnguarded(_, _, _)
PlotLoopUnguarded(df, selected, i) ==
    IF i > Len(selected) THEN [lines |-> <<>>, read |-> {}, raised |-> FALSE]
    ELSE LET var == selected[i]
             rest == PlotLoopUnguarded(df, selected, i + 1)
         IN  [lines |-> <<[label |-> var, y |-> <<>>]>> \o rest.lines,
              read |-> {var} \cup rest.read,
              raised |-> rest.raised]

RECURSIVE PlotLoop(_, _, _)
PlotLoop(df, selected, i) ==
    IF i > Len(selected) THEN [lines |-> <<>>, read |-> {}, raised |-> FALSE]
    ELSE LET var == selected[i]
         IN  IF var \notin Range(df.cols) THEN PlotLoop(df, selected, i + 1)
             ELSE IF NormalizeRaises(Column(df, var))
             THEN [lines |-> <<>>, read |-> {var}, raised |-> TRUE]
             ELSE LET rest == PlotLoop(df, selected, i + 1)
                  IN  [lines |-> <<[label |-> var,
                                    y |-> Normalize(Column(df, var))]>>
                                 \o rest.lines,
                       read |-> {var} \cup rest.read,
                       raised |-> rest.raised]

(***************************************************************************)
(* State.                                                                  *)
(***************************************************************************)
VARIABLES
    frequency,        \* st.radio "Select Data Frequency"
    country,          \* st.selectbox "Select Country"
    date_range,       \* st.date_input: a tuple of one or two dates
    select_all,       \* st.checkbox "Select All Columns"
    ms,               \* the "Select Columns" multiselect as the front end holds it
    download_format,  \* st.radio "Select Download Format"
    clicked,          \* the run was started by "Download Data"
    session_df,       \* st.session_state["df"], NoDf when the key is absent
    conn,             \* get_connection's cache: "unset", "ok" or "none"
    rendered,         \* the conditional widgets the last run put on the page
    pc,               \* position of the current run, "idle" between runs
    outcome,          \* how the run ended: "done", "stopped", "exception"
    all_columns,      \* locals of the current run
    selected_columns,
    messages,         \* what the run has shown: errors, warnings, success
    query,            \* the data query handed to pd.read_sql in this run
    queries,          \* number of data queries issued in this run
    exported,         \* the download the run offered
    chart,            \* the figure of this run
    series,           \* input and output of the stand-alone normaliser run
    norm_series

vars == <<frequency, country, date_range, select_all, ms, download_format,
          clicked, session_df, conn, rendered, pc, outcome, all_columns,
          selected_columns, messages, query, queries, exported, chart,
          series, norm_series>>

widgets == <<frequency, country, date_range, select_all, ms, download_format>>
locals == <<all_columns, selected_columns, messages, query, queries,
            exported, chart>>
norm_vars == <<series, norm_series>>

NoWidget == [options |-> <<>>, default |-> <<>>, value |-> <<"<none>">>]
NoChart == [rendered |-> FALSE, lines |-> <<>>, read |-> {}]

InitApp ==
    /\ frequency = "Daily"
    /\ country = "EE"
    /\ date_range = <<StartDate, MaxDate>>
    /\ select_all = FALSE
    /\ ms = NoWidget
    /\ download_format = "CSV"
    /\ clicked = FALSE
    /\ session_df = NoDf
    /\ conn = "unset"
    /\ rendered = {}
    /\ pc = "resolve"
    /\ outcome = "running"
    /\ all_columns = <<>>
    /\ selected_columns = <<>>
    /\ messages = {}
    /\ query = NoQuery
    /\ queries = 0
    /\ exported = "none"
    /\ chart = NoChart

Init ==
    /\ InitApp
    /\ series = <<>>
    /\ norm_series = <<>>

(***************************************************************************)
(* User interactions.  Each one changes one widget and starts a run of the *)
(* whole script with fresh locals; only widgets the last run rendered can  *)
(* be used.                                                                *)
(***************************************************************************)
StartRun(byButton) ==
    /\ pc = "idle"
    /\ pc' = "resolve"
    /\ outcome' = "running"
    /\ clicked' = byButton
    /\ all_columns' = <<>>
    /\ selected_columns' = <<>>
    /\ messages' = {}
    /\ query' = NoQuery
    /\ queries' = 0
    /\ exported' = "none"
    /\ chart' = NoChart
    /\ UNCHANGED <<session_df, conn, rendered, norm_vars>>

Rerun ==
    /\ StartRun(FALSE)
    /\ UNCHANGED widgets

ChangeFrequency ==
    /\ StartRun(FALSE)
    /\ frequency' \in Frequencies \ {frequency}
    /\ UNCHANGED <<country, date_range, select_all, ms, download_format>>

ChangeCountry ==
    /\ StartRun(FALSE)
    /\ country' \in Range(Countries) \ {country}
    /\ UNCHANGED <<frequency, date_range, select_all, ms, download_format>>

\* The range picker reports the first click as a one-date tuple and the
\* second click as the completed (start, end) pair.
PickDate ==
    /\ StartRun(FALSE)
    /\ \/ \E a \in StartDate..MaxDate : date_range' = <<a>>
       \/ /\ Len(date_range) = 1
          /\ \E b \in date_range[1]..MaxDate : date_range' = <<date_range[1], b>>
    /\ UNCHANGED <<frequency, country, select_all, ms, download_format>>

ToggleSelectAll ==
    /\ StartRun(FALSE)
    /\ "columns" \in rendered
    /\ select_all' = ~select_all
    /\ UNCHANGED <<frequency, country, date_range, ms, download_format>>

\* The multiselect appends a newly picked option to its value and removes
\* a deselected one.
SelectColumn ==
    /\ StartRun(FALSE)
    /\ "columns" \in rendered
    /\ \E col \in Range(ms.options) \ Range(ms.value) :
           ms' = [ms EXCEPT !.value = Append(ms.value, col)]
    /\ UNCHANGED <<frequency, country, date_range, select_all, download_format>>

DeselectColumn ==
    /\ StartRun(FALSE)
    /\ "columns" \in rendered
    /\ \E col \in Range(ms.value) :
           ms' = [ms EXCEPT !.value = SelectSeq(ms.value, LAMBDA x : x # col)]
    /\ UNCHANGED <<frequency, country, date_range, select_all, download_format>>

ChangeFormat ==
    /\ StartRun(FALSE)
    /\ "format" \in rendered
    /\ download_format' \in Formats \ {download_format}
    /\ UNCHANGED <<frequency, country, date_range, select_all, ms>>

ClickDownload ==
    /\ StartRun(TRUE)
    /\ "button" \in rendered
    /\ UNCHANGED widgets

(***************************************************************************)
(* Lines 34-68 and 104-106: get_connection (cached after its first call,   *)
(* None included) and get_table_columns.  A missing connection and a       *)
(* failing probe both end in the except branch: st.error and [].           *)
(***************************************************************************)
\* What a first call of get_connection can return.
Connect == IF conn = "unset" THEN {"ok", "none"} ELSE {conn}

\* st.stop() (or an uncaught exception) ends the run; the state of a
\* widget the run did not reach is dropped by the framework.
ContinueAfterStop(at) == at
Halt(at) == "idle"

ResolveOk ==
    /\ pc = "resolve"
    /\ "ok" \in Connect
    /\ conn' = "ok"
    /\ all_columns' = TableColumns(table_name(frequency))
    /\ pc' = "select"
    /\ UNCHANGED <<frequency, country, date_range, select_all, ms,
                   download_format, clicked, session_df, rendered, outcome,
                   selected_columns, messages, query, queries, exported,
                   chart, norm_vars>>

ResolveFail ==
    /\ pc = "resolve"
    /\ \E c \in Connect :
          /\ conn' = c
          /\ messages' = messages \cup {"error:columns"}
                \cup (IF conn = "unset" /\ c = "none" THEN {"error:connect"} ELSE {})
    /\ all_columns' = <<>>
    /\ pc' = Halt("select")
    /\ outcome' = "stopped"
    /\ rendered' = {}
    /\ ms' = NoWidget
    /\ select_all' = FALSE
    /\ download_format' = "CSV"
    /\ UNCHANGED <<frequency, country, date_range, clicked, session_df,
                   selected_columns, query, queries, exported, chart,
                   norm_vars>>

(***************************************************************************)
(* Lines 108-128: the selectable columns, the defaults, the multiselect    *)
(* and the empty-selection warning.  A multiselect whose options or        *)
(* default differ from the last run's is a new widget and starts at its    *)
(* default.                                                                *)
(***************************************************************************)
SelectableWithCountry(cols, freq) ==
    SelectSeq(cols, LAMBDA col : col \notin Range(hidden_columns(freq)))
selectable_columns(cols, freq) ==
    SelectSeq(cols, LAMBDA col : col \notin Range(hidden_columns(freq))
                                 /\ col # "COUNTRY_CODE")
default_select(cols, freq) ==
    SelectSeq(selectable_columns(cols, freq), LAMBDA col : col \in default_vars)

Multiselect(widget, options, default) ==
    IF widget.options = options /\ widget.default = default /\ widget # NoWidget
    THEN widget
    ELSE [options |-> options, default |-> default, value |-> default]

\* Line 128: st.button is true only in the run its click started.
AlwaysFetch(button) == "fetch"
AfterSelect(button) == IF button THEN "fetch" ELSE "export"

Select ==
    /\ pc = "select"
    /\ LET options == selectable_columns(all_columns, frequency)
           default == IF select_all THEN options
                      ELSE default_select(all_columns, frequency)
       IN  ms' = Multiselect(ms, options, default)
    /\ selected_columns' = ms'.value
    /\ messages' = IF selected_columns' = <<>>
                   THEN messages \cup {"warning:empty"} ELSE messages
    /\ rendered' = {"columns", "button"}
    /\ pc' = AfterSelect(clicked)
    /\ UNCHANGED <<frequency, country, date_range, select_all,
                   download_format, clicked, session_df, conn, outcome,
                   all_columns, query, queries, exported, chart, norm_vars>>

(***************************************************************************)
(* Lines 128-151: the "Download Data" handler.  The query text is built    *)
(* before the try block, so date_range[1] on a one-date tuple raises an    *)
(* IndexError nothing catches.  session_state["df"] is assigned after      *)
(* pd.read_sql returned.                                                   *)
(***************************************************************************)
ColumnsSelectedFirst(freq, selected) == selected \o hidden_columns(freq)
ColumnsSelectedOnly(freq, selected) == selected
columns_to_select(freq, selected) == hidden_columns(freq) \o selected

BuildQuery ==
    [table |-> table_name(frequency),
     projection |-> columns_to_select(frequency, selected_columns),
     country |-> country,
     date_col |-> date_column(frequency),
     lo |-> date_range[1],
     hi |-> date_range[2]]

FetchRaises ==
    /\ pc = "fetch"
    /\ Len(date_range) < 2
    /\ messages' = messages \cup {"exception:IndexError"}
    /\ outcome' = "exception"
    /\ pc' = "idle"
    /\ download_format' = "CSV"
    /\ UNCHANGED <<frequency, country, date_range, select_all, ms, clicked,
                   session_df, conn, rendered, all_columns, selected_columns,
                   query, queries, exported, chart, norm_vars>>

FetchOk ==
    /\ pc = "fetch"
    /\ Len(date_range) = 2
    /\ QueryCompiles(BuildQuery)
    /\ query' = BuildQuery
    /\ queries' = queries + 1
    /\ session_df' = RunQuery(BuildQuery)
    /\ messages' = messages \cup {"success"}
    /\ pc' = "export"
    /\ UNCHANGED <<widgets, clicked, conn, rendered, outcome, all_columns,
                   selected_columns, exported, chart, norm_vars>>

\* pd.read_sql raises: the connection was lost, the statement was
\* rejected, the role may not read the table.
FetchFail ==
    /\ pc = "fetch"
    /\ Len(date_range) = 2
    /\ query' = BuildQuery
    /\ queries' = queries + 1
    /\ messages' = messages \cup {"error:data"}
    /\ pc' = "export"
    /\ UNCHANGED <<widgets, clicked, session_df, conn, rendered, outcome, all_columns,
                   selected_columns, exported, chart, norm_vars>>

(***************************************************************************)
(* Lines 153-183: the export section, on the stored table only.            *)
(***************************************************************************)
Export ==
    /\ pc = "export"
    /\ IF session_df # NoDf
       THEN /\ exported' = download_format
            /\ rendered' = rendered \cup {"format"}
            /\ UNCHANGED download_format
       ELSE /\ exported' = "none"
            /\ rendered' = rendered \ {"format"}
            /\ download_format' = "CSV"
    /\ pc' = "plot"
    /\ UNCHANGED <<frequency, country, date_range, select_all, ms, clicked,
                   session_df, conn, outcome, all_columns, selected_columns,
                   messages, query, queries, chart, norm_vars>>

(***************************************************************************)
(* Lines 188-231: the plot section.  df is the object stored in            *)
(* session_state, so the assignment of the converted date column changes   *)
(* the stored table.  An exception in the loop ends the run before         *)
(* st.pyplot.                                                              *)
(***************************************************************************)
Plot ==
    /\ pc = "plot"
    /\ pc' = "idle"
    /\ LET dc == date_column(frequency)
       IN  IF session_df = NoDf \/ Len(session_df.data) = 0
           THEN /\ outcome' = "done"
                /\ UNCHANGED <<session_df, messages, chart>>
           ELSE IF dc \notin Range(session_df.cols)
           THEN /\ messages' = messages \cup {"warning:nodate"}
                /\ outcome' = "done"
                /\ UNCHANGED <<session_df, chart>>
           ELSE LET dates == Column(session_df, dc)
                    bad == ToDatetimeRaises(dates)
                    df == IF bad THEN session_df
                          ELSE SetColumn(session_df, dc, ToDatetime(dates))
                    loop == PlotLoop(df, selected_columns, 1)
                IN  /\ session_df' = df
                    /\ chart' = [rendered |-> ~loop.raised,
                                 lines |-> loop.lines,
                                 read |-> {dc} \cup loop.read]
                    /\ messages' = messages
                          \cup (IF bad THEN {"error:convert"} ELSE {})
                          \cup (IF loop.raised THEN {"exception:TypeError"} ELSE {})
                    /\ outcome' = IF loop.raised THEN "exception" ELSE "done"
    /\ UNCHANGED <<widgets, clicked, conn, rendered, all_columns,
                   selected_columns, query, queries, exported, norm_vars>>

Next ==
    \/ Rerun
    \/ ChangeFrequency
    \/ ChangeCountry
    \/ PickDate
    \/ ToggleSelectAll
    \/ SelectColumn
    \/ DeselectColumn
    \/ ChangeFormat
    \/ ClickDownload
    \/ ResolveOk
    \/ ResolveFail
    \/ Select
    \/ FetchRaises
    \/ FetchOk
    \/ FetchFail
    \/ Export
    \/ Plot

Spec == Init /\ [][Next]_vars

(***************************************************************************)
(* The normaliser on its own: every series of 1..MaxLen numbers in         *)
(* -MaxVal..MaxVal is normalised once.                                     *)
(***************************************************************************)
SeriesInputs ==
    UNION {[1..n -> {Cell("num", v) : v \in (0 - MaxVal)..MaxVal}] : n \in 1..MaxLen}

InitNorm ==
    /\ InitApp
    /\ series \in SeriesInputs
    /\ norm_series = <<>>

NormalizeSeries ==
    /\ norm_series = <<>>
    /\ norm_series' = Normalize(series)
    /\ UNCHANGED <<widgets, clicked, session_df, conn, rendered, pc, outcome,
                   locals, series>>

NextNorm == NormalizeSeries

SpecNorm == InitNorm /\ [][NextNorm]_vars

TypeOK ==
    /\ frequency \in Frequencies
    /\ country \in Range(Countries)
    /\ Len(date_range) \in {1, 2}
    /\ pc \in {"idle", "resolve", "select", "fetch", "export", "plot"}
    /\ outcome \in {"running", "done", "stopped", "exception"}
    /\ conn \in {"unset", "ok", "none"}
    /\ queries \in 0..1
    /\ exported \in Formats \cup {"none"}

(***************************************************************************)
(* Properties.                                                             *)
(***************************************************************************)
HiddenOf(freq) ==
    IF freq = "Daily" THEN <<"DAILY_WEATHER_ID", "RECORD_DATE">>
                      ELSE <<"WEEKLY_WEATHER_ID", "RECORD_WEEK">>

FetchSucceeded == "success" \in messages
StoredRows == session_df # NoDf /\ Len(session_df.data) > 0

\* C1: a fetch that fails leaves st.session_state["df"] as it was and
\* reports an error; the stored table changes only in a fetch step that
\* succeeded, and then to the result of that fetch's query.
C1_StoredTableChangesOnlyAtFetch ==
    [][/\ (pc = "fetch" /\ "success" \notin messages')
            => /\ session_df' = session_df
               /\ messages' \cap {"error:data", "exception:IndexError"} # {}
       /\ session_df' # session_df
            => /\ pc = "fetch"
               /\ "success" \in messages'
               /\ session_df' = RunQuery(query')]_vars

\* C2: the projection of every issued data query is the chosen table's two
\* hidden columns in their fixed order followed by the selected columns in
\* selection order, and the table a successful fetch stores has exactly
\* those columns in that order.
C2_ProjectionOrder ==
    query # NoQuery =>
        /\ query.projection = HiddenOf(frequency) \o selected_columns
        /\ FetchSucceeded => session_df.cols = HiddenOf(frequency) \o selected_columns

C2_Witness ==
    /\ FetchSucceeded
    /\ frequency = "Daily"
    /\ selected_columns = <<"WEATHER_DESC", "TEMP_AVG">>
    /\ Len(session_df.cols) = 4

\* C3: at every fetch each selected column is a column of the table
\* resolved in this run, is not a hidden column of the chosen table and is
\* not COUNTRY_CODE; COUNTRY_CODE is never projected, and every identifier
\* in the query text is a resolved column or one of the two table names.
C3_SelectionWithinColumnSet ==
    /\ (pc = "fetch" \/ query # NoQuery) =>
          \A col \in Range(selected_columns) :
              /\ col \in Range(all_columns)
              /\ col \notin Range(HiddenOf(frequency))
              /\ col # "COUNTRY_CODE"
    /\ query # NoQuery =>
          /\ "COUNTRY_CODE" \notin Range(query.projection)
          /\ Range(query.projection) \cup {query.date_col} \subseteq Range(all_columns)
          /\ query.table \in {"weather_daily", "weather_weekly"}
          /\ query.table = table_name(frequency)

C3_Witness ==
    /\ query # NoQuery
    /\ frequency = "Weekly"
    /\ selected_columns = <<"SNOWFALL_SUM">>
    /\ session_df # NoDf
    /\ "WEATHER_DESC" \in Range(session_df.cols)

\* C4: when column resolution fails the resolver returns the empty list
\* and an error is shown, and the run ends there: no data query, no
\* export, no plot, and the stored table is left as it was.
C4_ResolveFailureHalts ==
    /\ []("error:columns" \in messages =>
             /\ outcome = "stopped"
             /\ pc = "idle"
             /\ all_columns = <<>>
             /\ queries = 0 /\ query = NoQuery
             /\ exported = "none"
             /\ chart = NoChart)
    /\ []((pc = "idle" /\ all_columns = <<>>) => "error:columns" \in messages)
    /\ [][outcome' = "stopped" => session_df' = session_df]_vars

C4_Witness ==
    /\ outcome = "stopped"
    /\ clicked
    /\ conn = "ok"
    /\ StoredRows

\* C5: in a run that plots the stored table, a selected column whose
\* normalisation fails is the only one left out: the chart is rendered and
\* every other selected column of the table has its line.
PlotRan ==
    /\ pc = "idle"
    /\ outcome \in {"done", "exception"}
    /\ "exception:IndexError" \notin messages
    /\ StoredRows
    /\ date_column(frequency) \in Range(session_df.cols)

C5_FailingColumnSkippedOnly ==
    PlotRan =>
        /\ chart.rendered
        /\ \A col \in Range(selected_columns) \cap Range(session_df.cols) :
              ~NormalizeRaises(Column(session_df, col))
                  => \E i \in 1..Len(chart.lines) : chart.lines[i].label = col

\* C6: the normalised series is row-aligned with its input; when the
\* input's max and min differ every output is (value - min) / (max - min),
\* lies in [0, 1], the smallest output is exactly 0 and the largest exactly
\* 1; when they are equal (a constant or one-row column) the output is the
\* input unchanged.
C6_MinMaxNormalization ==
    norm_series # <<>> =>
        LET lo == SeriesMin(series)
            hi == SeriesMax(series)
            n == Len(series)
        IN  /\ Len(norm_series) = n
            /\ hi # lo =>
                  /\ \A i \in 1..n :
                        /\ norm_series[i].k = "frac"
                        /\ norm_series[i].d = hi - lo
                        /\ norm_series[i].n = series[i].v - lo
                        /\ norm_series[i].d > 0
                        /\ 0 <= norm_series[i].n
                        /\ norm_series[i].n <= norm_series[i].d
                  /\ \E i \in 1..n : norm_series[i].n = 0
                  /\ \E i \in 1..n : norm_series[i].n = norm_series[i].d
            /\ hi = lo => norm_series = series

C6_Witness ==
    /\ norm_series # <<>>
    /\ Len(series) = 3
    /\ SeriesMin(series) < 0
    /\ SeriesMax(series) > SeriesMin(series)
    /\ \E i \in 1..3 : norm_series[i].n > 0 /\ norm_series[i].n < norm_series[i].d

\* C7: a fetch with nothing selected raises the empty-selection warning,
\* projects exactly the hidden columns, is a statement the warehouse
\* accepts, and on success its result is stored as for any other fetch.
C7_EmptySelectionFetch ==
    /\ (pc = "fetch" /\ selected_columns = <<>>) =>
          /\ "warning:empty" \in messages
          /\ Len(date_range) = 2 => QueryCompiles(BuildQuery)
    /\ (query # NoQuery /\ selected_columns = <<>>) =>
          /\ "warning:empty" \in messages
          /\ query.projection = HiddenOf(frequency)
          /\ FetchSucceeded =>
                /\ "error:data" \notin messages
                /\ session_df.cols = HiddenOf(frequency)
                /\ pc = "export" => session_df = RunQuery(query)
                /\ pc = "idle" =>
                      /\ outcome = "done"
                      /\ messages = {"success", "warning:empty"}

C7_Witness ==
    /\ query # NoQuery
    /\ selected_columns = <<>>
    /\ FetchSucceeded
    /\ pc = "export"
    /\ Len(session_df.data) = 2

\* C8: the table a successful fetch stores holds exactly the rows of the
\* chosen table whose COUNTRY_CODE is the chosen country and whose date
\* column lies in [date_range[1], date_range[2]], bounds included, each
\* once, in non-decreasing order of the date column.
MatchingRows ==
    {r \in Range(TableRows(table_name(frequency))) :
        /\ r["COUNTRY_CODE"].v = CountryCode(country)
        /\ date_range[1] <= r[date_column(frequency)].v
        /\ r[date_column(frequency)].v <= date_range[2]}

C8_FilterAndOrder ==
    (FetchSucceeded /\ query # NoQuery) =>
        LET n == Len(session_df.data)
            idcol == HiddenOf(frequency)[1]
            ids == Column(session_df, idcol)
            dates == Column(session_df, date_column(frequency))
        IN  /\ n = Cardinality(MatchingRows)
            /\ \A r \in MatchingRows :
                  \E i \in 1..n : /\ ids[i].v = r[idcol].v
                                  /\ dates[i].v = r[date_column(frequency)].v
            /\ \A i \in 1..n : \E r \in MatchingRows : ids[i].v = r[idcol].v
            /\ \A i, j \in 1..n : i < j => dates[i].v <= dates[j].v

C8_Witness ==
    /\ FetchSucceeded
    /\ query # NoQuery
    /\ country = "LV"
    /\ date_range = <<StartDate, MaxDate>>
    /\ Len(session_df.data) = MaxDate

\* C9 as stated: every run started by "Download Data" issues the data
\* query exactly once, and no other run issues it.
C9_OncePerFetchAction ==
    pc = "idle" => queries = (IF clicked THEN 1 ELSE 0)

\* C9: the data query is issued at most once per run and only in a run
\* started by "Download Data"; such a run issues it exactly once when its
\* column resolution succeeded and date_range holds both dates, and not at
\* all otherwise.  Runs not started by the button serve export and plot
\* from the stored table.
C9_QueryOnlyInFetchRun ==
    /\ queries \in {0, 1}
    /\ queries = 1 => clicked /\ query # NoQuery
    /\ pc = "idle" =>
          queries = (IF /\ clicked
                        /\ outcome # "stopped"
                        /\ "exception:IndexError" \notin messages
                     THEN 1 ELSE 0)
    /\ (pc = "idle" /\ outcome = "stopped") => all_columns = <<>>
    /\ "exception:IndexError" \in messages => Len(date_range) < 2

C9_Witness ==
    /\ pc = "idle"
    /\ ~clicked
    /\ queries = 0
    /\ exported = "Excel"
    /\ chart.rendered
    /\ Len(chart.lines) = 2

\* C10: the plot reads only columns the stored table has: a line is drawn
\* only for a column that is both selected now and present in the stored
\* table, and when the stored table lacks the date column of the chosen
\* frequency a warning is shown and nothing is drawn.
C10_PlotReadsStoredColumnsOnly ==
    /\ chart # NoChart => chart.read \subseteq Range(session_df.cols)
    /\ \A i \in 1..Len(chart.lines) :
          /\ chart.lines[i].label \in Range(selected_columns)
          /\ chart.lines[i].label \in Range(session_df.cols)
          /\ Len(chart.lines[i].y) = Len(session_df.data)
    /\ (pc = "idle" /\ outcome = "done" /\ StoredRows
            /\ date_column(frequency) \notin Range(session_df.cols)) =>
          /\ "warning:nodate" \in messages
          /\ chart = NoChart

C10_Witness ==
    /\ pc = "idle"
    /\ chart.rendered
    /\ Len(chart.lines) = 1
    /\ \E col \in Range(selected_columns) : col \notin Range(session_df.cols)
    /\ frequency = "Daily"
    /\ "SNOWFALL_SUM" \notin Range(session_df.cols)

=============================================================================
